---------------------------- MODULE Spec2Model ----------------------------
(***************************************************************************)
(* Model of book_isbn_extractor.py: the ISBN checksum validators, the      *)
(* regular-expression extraction of ISBNs from recognised text, and the    *)
(* run of BookISBNExtractor.process_folder (scan, per-file processing and  *)
(* aggregation, metadata enrichment, report emission).                     *)
(*                                                                         *)
(* Text is a sequence of one-character strings.                            *)
(***************************************************************************)
EXTENDS Integers, Sequences, FiniteSets, TLC

VARIABLES
    text,           \* the string handed to _validate_isbn / extract_isbns_from_text
    edits,          \* number of character substitutions applied to text
    vpc,            \* "input" | "validated" | "extracted"
    valid,          \* result of _validate_isbn(text)
    found,          \* result of extract_isbns_from_text(text), as a set
    pc,             \* position of process_folder
    folder_exists,  \* Path(folder_path).exists()
    dir_files,      \* the image files of the folder, in iterdir() order
    image_files,    \* local image_files of process_folder
    idx,            \* number of image files the for-loop has consumed
    all_isbns,      \* local all_isbns: insertion-ordered ISBN -> [file names]
    book_data,      \* local book_data: list of record dicts
    looked_up,      \* ISBNs passed to api_client.get_book_info, in call order
    api_outcome,    \* outcome of each get_book_info call, in call order
    csv,            \* the output file: whether it exists, and its rows
    save_calls,     \* number of calls of _save_to_csv
    save_failed,    \* the last _save_to_csv caught an exception
    scans,          \* number of calls of find_image_files
    file_results,   \* per loop iteration: the file name and the local isbns
    api_delay,      \* BookAPIClient.api_delay, in seconds
    now,            \* the clock, in seconds since the run began
    fetches,        \* the session.get calls made: ISBN, start and finish time
    api_volumes,    \* the volumeInfo the provider held for each lookup, in call order
    log             \* logger records emitted by the run, oldest first

isbn_vars == <<text, edits, vpc, valid, found>>
run_vars  == <<pc, folder_exists, dir_files, image_files, idx, all_isbns,
               book_data, looked_up, api_outcome, csv, save_calls,
               save_failed, scans, file_results, api_delay, now, fetches,
               api_volumes, log>>
vars == <<text, edits, vpc, valid, found, pc, folder_exists, dir_files,
          image_files, idx, all_isbns, book_data, looked_up, api_outcome,
          csv, save_calls, save_failed, scans, file_results, api_delay, now,
          fetches, api_volumes, log>>

net_vars == <<api_delay, now, fetches, api_volumes>>

(***************************************************************************)
(* Bounds of the model.                                                    *)
(***************************************************************************)
MaxEdits == 2
MaxTextEdits == 1
MaxFiles == 3

\* the largest folder termination is examined for
MaxFairFiles == 2

(***************************************************************************)
(* Characters.                                                             *)
(***************************************************************************)
Digits == {"0", "1", "2", "3", "4", "5", "6", "7", "8", "9"}

\* str.isdigit() on one ASCII character
isdigit(c) == c \in Digits

\* int(c) for a decimal digit c
int(c) ==
    CASE c = "0" -> 0 [] c = "1" -> 1 [] c = "2" -> 2 [] c = "3" -> 3
      [] c = "4" -> 4 [] c = "5" -> 5 [] c = "6" -> 6 [] c = "7" -> 7
      [] c = "8" -> 8 [] c = "9" -> 9

\* str.upper() on one character (the letters the model's alphabet holds)
upper(c) ==
    CASE c = "x" -> "X" [] c = "i" -> "I" [] c = "s" -> "S"
      [] c = "b" -> "B" [] c = "n" -> "N" [] OTHER -> c

\* \s of the re module (ASCII white space)
Whitespace == {" ", "\n", "\t"}

\* [-\s]
Separators == {"-"} \cup Whitespace

(***************************************************************************)
(* ISBNExtractor._validate_isbn10 / _validate_isbn13 / _validate_isbn.     *)
(***************************************************************************)
\* mutant: the weight of position i is 9 - i
RECURSIVE isbn10_loop_w9(_, _, _)
isbn10_loop_w9(isbn, i, total) ==
    IF i = 9 THEN total
    ELSE IF ~isdigit(isbn[i + 1]) THEN -1
    ELSE isbn10_loop_w9(isbn, i + 1, total + int(isbn[i + 1]) * (9 - i))

\* the for-loop of _validate_isbn10 from index i (0-based) with running total;
\* -1 stands for the early "return False"
RECURSIVE isbn10_loop(_, _, _)
isbn10_loop(isbn, i, total) ==
    IF i = 9 THEN total
    ELSE IF ~isdigit(isbn[i + 1]) THEN -1
    ELSE isbn10_loop(isbn, i + 1, total + int(isbn[i + 1]) * (10 - i))

isbn10_total(isbn) == isbn10_loop(isbn, 0, 0)

validate_isbn10(isbn) ==
    IF Len(isbn) # 10 THEN FALSE
    ELSE LET total == isbn10_total(isbn)
             check == upper(isbn[10])
         IN  IF total = -1 THEN FALSE
             ELSE IF check = "X" THEN (total + 10) % 11 = 0
             ELSE IF isdigit(check) THEN (total + int(check)) % 11 = 0
             ELSE FALSE

\* mutant: the weights alternate 3,1 instead of 1,3
RECURSIVE isbn13_loop_31(_, _, _)
isbn13_loop_31(isbn, i, total) ==
    IF i = 12 THEN total
    ELSE isbn13_loop_31(isbn, i + 1,
                        total + int(isbn[i + 1]) * (IF i % 2 = 0 THEN 3 ELSE 1))

\* the for-loop of _validate_isbn13 from index i (0-based)
RECURSIVE isbn13_loop(_, _, _)
isbn13_loop(isbn, i, total) ==
    IF i = 12 THEN total
    ELSE isbn13_loop(isbn, i + 1,
                     total + int(isbn[i + 1]) * (IF i % 2 = 0 THEN 1 ELSE 3))

isbn13_total(isbn) == isbn13_loop(isbn, 0, 0)

validate_isbn13(isbn) ==
    IF Len(isbn) # 13 \/ ~(\A i \in 1..Len(isbn) : isdigit(isbn[i])) THEN FALSE
    ELSE LET total == isbn13_total(isbn)
             check_digit == (10 - (total % 10)) % 10
         IN  check_digit = int(isbn[13])

validate_isbn(isbn) ==
    IF Len(isbn) = 10 THEN validate_isbn10(isbn)
    ELSE IF Len(isbn) = 13 THEN validate_isbn13(isbn)
    ELSE FALSE

(***************************************************************************)
(* ISBNExtractor.isbn_patterns.  A pattern is a list of items; an item is  *)
(* a run of character classes that is matched as a unit, mandatory or      *)
(* optional (greedy "?").  Matching is case-insensitive (re.IGNORECASE).   *)
(***************************************************************************)
Req(classes) == [cls |-> classes, opt |-> FALSE]
Opt(classes) == [cls |-> classes, opt |-> TRUE]
Rep(class, n) == [i \in 1..n |-> class]

\* (?:ISBN[-\s]?(?:13)?[-\s]?:?[-\s]?) with the two digits of the kind
isbn_prefix(d1, d2) ==
    << Req(<<{"I", "i"}, {"S", "s"}, {"B", "b"}, {"N", "n"}>>),
       Opt(<<Separators>>), Opt(<<{d1}, {d2}>>), Opt(<<Separators>>),
       Opt(<<{":"}>>), Opt(<<Separators>>) >>

\* (\d{3}[-\s]?\d{1}[-\s]?\d{3}[-\s]?\d{5}[-\s]?\d{1})
isbn13_group ==
    << Req(Rep(Digits, 3)), Opt(<<Separators>>), Req(Rep(Digits, 1)),
       Opt(<<Separators>>), Req(Rep(Digits, 3)), Opt(<<Separators>>),
       Req(Rep(Digits, 5)), Opt(<<Separators>>), Req(Rep(Digits, 1)) >>

\* (\d{1}[-\s]?\d{3}[-\s]?\d{5}[-\s]?[\dX])
isbn10_group ==
    << Req(Rep(Digits, 1)), Opt(<<Separators>>), Req(Rep(Digits, 3)),
       Opt(<<Separators>>), Req(Rep(Digits, 5)), Opt(<<Separators>>),
       Req(<<Digits \cup {"X", "x"}>>) >>

isbn_patterns ==
    << [prefix |-> isbn_prefix("1", "3"), group |-> isbn13_group],
       [prefix |-> isbn_prefix("1", "0"), group |-> isbn10_group] >>

\* the classes of an item match the text at pos
fits(classes, t, pos) ==
    /\ pos + Len(classes) - 1 <= Len(t)
    /\ \A j \in 1..Len(classes) : t[pos + j - 1] \in classes[j]

\* Backtracking match of items[k..] at pos; g is the index of the first item
\* of the capturing group.  <<>> when there is no match, else
\* <<start of group 1, position after the match>>.
RECURSIVE match_items(_, _, _, _, _)
match_items(items, g, k, t, pos) ==
    IF k > Len(items) THEN <<0, pos>>
    ELSE LET it == items[k]
             taken == IF fits(it.cls, t, pos)
                      THEN match_items(items, g, k + 1, t, pos + Len(it.cls))
                      ELSE <<>>
             rest == IF taken # <<>> THEN taken
                     ELSE IF it.opt THEN match_items(items, g, k + 1, t, pos)
                     ELSE <<>>
         IN  IF rest # <<>> /\ k = g THEN <<pos, rest[2]>> ELSE rest

\* the pattern at pos: the optional prefix is tried first, then skipped
match_at(p, t, pos) ==
    LET with == match_items(p.prefix \o p.group, Len(p.prefix) + 1, 1, t, pos)
    IN  IF with # <<>> THEN with ELSE match_items(p.group, 1, 1, t, pos)

\* re.finditer(pattern, text, re.IGNORECASE): group(1) of the successive
\* non-overlapping matches, scanning from pos
RECURSIVE finditer(_, _, _)
finditer(p, t, pos) ==
    IF pos > Len(t) THEN <<>>
    ELSE LET m == match_at(p, t, pos)
         IN  IF m = <<>> THEN finditer(p, t, pos + 1)
             ELSE <<SubSeq(t, m[1], m[2] - 1)>> \o finditer(p, t, m[2])

\* re.sub(r'[-\s]', '', isbn)
clean(isbn) == SelectSeq(isbn, LAMBDA c : c \notin Separators)

\* mutant: the checksum is not consulted
keeps_unvalidated(cleaned_isbn) ==
    Len(cleaned_isbn) >= 10

\* lines 157-160: the candidate is kept
keeps(cleaned_isbn) ==
    /\ Len(cleaned_isbn) = 10 \/ Len(cleaned_isbn) = 13
    /\ validate_isbn(cleaned_isbn)

\* the list isbns of extract_isbns_from_text after the loop over pattern p
RECURSIVE isbns_of_matches(_)
isbns_of_matches(ms) ==
    IF ms = <<>> THEN <<>>
    ELSE LET cleaned_isbn == clean(Head(ms))
         IN  (IF keeps(cleaned_isbn) THEN <<cleaned_isbn>> ELSE <<>>)
             \o isbns_of_matches(Tail(ms))

isbns_list(t) ==
    isbns_of_matches(finditer(isbn_patterns[1], t, 1))
        \o isbns_of_matches(finditer(isbn_patterns[2], t, 1))

\* extract_isbns_from_text: list(set(isbns)), as the set of its elements
extract_isbns_from_text(t) ==
    LET isbns == isbns_list(t)
    IN  {isbns[i] : i \in 1..Len(isbns)}

(***************************************************************************)
(* Inputs of the pure functions: a base string with a bounded number of    *)
(* single-character substitutions drawn from Alphabet.                     *)
(***************************************************************************)
Alphabet == {"0", "1", "5", "9", "X", "x", "-", " ", "A"}

\* strings handed to _validate_isbn (test_extractor.py and variants)
ValidateInputs ==
    { <<"0", "5", "9", "6", "0", "0", "7", "9", "7", "3">>,
      <<"0", "2", "0", "1", "6", "1", "6", "1", "6", "5">>,
      <<"0", "1", "2", "3", "4", "5", "6", "7", "8", "8">>,
      <<"0", "8", "0", "4", "4", "2", "9", "5", "7", "X">>,
      <<"9", "7", "8", "0", "5", "9", "6", "5", "2", "0", "6", "8", "7">>,
      <<"9", "7", "8", "0", "1", "2", "3", "4", "5", "6", "7", "8", "8">>,
      <<"0", "5", "9", "6", "0", "0", "7", "9", "7">>,
      <<"0", "5", "9", "6", "0", "0", "7", "9", "7", "3", "0">>,
      <<"1", "2", "3">>,
      <<"i", "n", "v", "a", "l", "i", "d">> }

\* recognised texts handed to extract_isbns_from_text
OcrTexts ==
    { <<"I", "S", "B", "N", ":", " ", "9", "7", "8", "-", "0", "-", "5", "9", "6", "-", "5", "2", "0", "6", "8", "-", "7">>,
      <<"I", "S", "B", "N", " ", "0", "-", "5", "9", "6", "-", "0", "0", "7", "9", "7", "-", "3">>,
      <<"9", "7", "8", "0", "1", "3", "4", "6", "8", "5", "9", "9", "1", "\n", "0", "1", "3", "4", "0", "3", "4", "2", "8", "7">>,
      <<"9", "7", "8", "-", "i", "n", "v", "a", "l", "i", "d", "-", "i", "s", "b", "n">>,
      <<"I", "S", "B", "N", "1", "3", ":", "9", "7", "8", "0", "5", "9", "6", "5", "2", "0", "6", "8", "7">>,
      <<"i", "s", "b", "n", "-", "1", "0", ":", " ", "0", " ", "8", "0", "4", "4", " ", "2", "9", "5", "7", " ", "x">>,
      <<"0", "5", "9", "6", "0", "0", "7", "9", "7", "3", " ", "0", "5", "9", "6", "0", "0", "7", "9", "7", "3">> }

\* process_folder is not running
RunIdle ==
    /\ pc = "idle"
    /\ folder_exists = FALSE
    /\ dir_files = <<>>
    /\ image_files = <<>>
    /\ idx = 0
    /\ all_isbns = <<>>
    /\ book_data = <<>>
    /\ looked_up = <<>>
    /\ api_outcome = <<>>
    /\ csv = [exists |-> FALSE, rows |-> <<>>]
    /\ save_calls = 0
    /\ save_failed = FALSE
    /\ scans = 0
    /\ file_results = <<>>
    /\ api_delay = 0
    /\ now = 0
    /\ fetches = <<>>
    /\ api_volumes = <<>>
    /\ log = <<>>

\* no string is under validation or extraction
IsbnIdle ==
    /\ text = <<>>
    /\ edits = 0
    /\ vpc = "idle"
    /\ valid = FALSE
    /\ found = {}

\* one character of the input is replaced
Substitute(bound) ==
    /\ vpc = "input"
    /\ edits < bound
    /\ \E i \in 1..Len(text), c \in Alphabet :
          /\ c # text[i]
          /\ text' = [text EXCEPT ![i] = c]
    /\ edits' = edits + 1
    /\ UNCHANGED <<vpc, valid, found>>
    /\ UNCHANGED run_vars

\* a call of ISBNExtractor._validate_isbn(text)
Validate ==
    /\ vpc = "input"
    /\ valid' = validate_isbn(text)
    /\ vpc' = "validated"
    /\ UNCHANGED <<text, edits, found>>
    /\ UNCHANGED run_vars

\* a call of ISBNExtractor.extract_isbns_from_text(text)
Extract ==
    /\ vpc = "input"
    /\ found' = extract_isbns_from_text(text)
    /\ vpc' = "extracted"
    /\ UNCHANGED <<text, edits, valid>>
    /\ UNCHANGED run_vars

InitValidate ==
    /\ text \in ValidateInputs
    /\ edits = 0
    /\ vpc = "input"
    /\ valid = FALSE
    /\ found = {}
    /\ RunIdle

NextValidate == Substitute(MaxEdits) \/ Validate

SpecValidate == InitValidate /\ [][NextValidate]_vars

InitExtract ==
    /\ text \in OcrTexts
    /\ edits = 0
    /\ vpc = "input"
    /\ valid = FALSE
    /\ found = {}
    /\ RunIdle

NextExtract == Substitute(MaxTextEdits) \/ Extract

SpecExtract == InitExtract /\ [][NextExtract]_vars

(***************************************************************************)
(* The folder handed to process_folder.                                    *)
(***************************************************************************)
\* ImageProcessor.supported_formats
SupportedFormats == {".jpg", ".jpeg", ".png", ".bmp", ".tiff"}

\* str.lower() on a file suffix
lower(suffix) ==
    CASE suffix = ".PNG" -> ".png" [] suffix = ".JPG" -> ".jpg" [] OTHER -> suffix

\* a file of the folder: its suffix, what cv2 makes of it ("ok", "unreadable":
\* imread returns None, "error": a stage raises), what Tesseract makes of it
\* ("ok", "fail": image_to_string raises) and the text it recognises
File(suffix, img, ocr, t) == [suffix |-> suffix, img |-> img, ocr |-> ocr, text |-> t]

FileKinds ==
    { File(".txt", "ok", "ok", <<>>),
      File(".png", "unreadable", "ok", <<>>),
      File(".jpg", "error", "ok", <<>>),
      File(".png", "ok", "fail", <<>>),
      File(".png", "ok", "ok", <<" ", "\n">>),
      File(".PNG", "ok", "ok", <<"I", "S", "B", "N", ":", " ", "9", "7", "8", "-", "0", "-", "5", "9", "6", "-", "5", "2", "0", "6", "8", "-", "7">>),
      File(".jpg", "ok", "ok", <<"0", "-", "5", "9", "6", "-", "0", "0", "7", "9", "7", "-", "3">>),
      File(".png", "ok", "ok", <<"9", "7", "8", "0", "5", "9", "6", "5", "2", "0", "6", "8", "7", "\n", "\n", "0", "5", "9", "6", "0", "0", "7", "9", "7", "3">>),
      File(".png", "ok", "ok", <<"9", "7", "8", "-", "i", "n", "v", "a", "l", "i", "d", "-", "i", "s", "b", "n">>) }

Folders == UNION {[1..n -> FileKinds] : n \in 0..MaxFiles}

\* the name of the i-th entry of the folder
file_name(i) == "book_" \o ToString(i) \o dir_files[i].suffix

\* str(file_path) of an entry
path_of(i) == [folder |-> "books", name |-> file_name(i)]

\* os.path.basename
basename(path) == path.name

\* the folder entry a path names
entry_at(path) == dir_files[CHOOSE i \in 1..Len(dir_files) : file_name(i) = path.name]

Info(msg) == [level |-> "INFO", msg |-> msg]
Warning(msg) == [level |-> "WARNING", msg |-> msg]
Error(msg) == [level |-> "ERROR", msg |-> msg]

(***************************************************************************)
(* ImageProcessor.find_image_files                                         *)
(***************************************************************************)
RECURSIVE iterdir_images(_)
iterdir_images(i) ==
    IF i > Len(dir_files) THEN <<>>
    ELSE (IF lower(dir_files[i].suffix) \in SupportedFormats
          THEN <<path_of(i)>> ELSE <<>>) \o iterdir_images(i + 1)

find_image_files ==
    IF ~folder_exists
    THEN [files |-> <<>>, log |-> <<Error("Folder does not exist")>>]
    ELSE [files |-> iterdir_images(1), log |-> <<Info("Found image files")>>]

(***************************************************************************)
(* ImageProcessor.optimize_image_for_ocr, ISBNExtractor.extract_text_from_image *)
(***************************************************************************)
\* image = FALSE stands for the return value None
optimize_image_for_ocr(file) ==
    IF file.img = "unreadable"
    THEN [image |-> FALSE, log |-> <<Warning("Could not read image")>>]
    ELSE IF file.img = "error"
    THEN [image |-> FALSE, log |-> <<Error("Error processing image")>>]
    ELSE [image |-> TRUE, log |-> <<>>]

extract_text_from_image(file) ==
    IF file.ocr = "fail"
    THEN [text |-> <<>>, log |-> <<Error("OCR extraction failed")>>]
    ELSE [text |-> file.text, log |-> <<>>]

\* str.strip()
RECURSIVE lstrip(_)
lstrip(t) ==
    IF t # <<>> /\ Head(t) \in Whitespace THEN lstrip(Tail(t)) ELSE t

RECURSIVE rstrip(_)
rstrip(t) ==
    IF t # <<>> /\ t[Len(t)] \in Whitespace
    THEN rstrip(SubSeq(t, 1, Len(t) - 1)) ELSE t

strip(t) == rstrip(lstrip(t))

(***************************************************************************)
(* One iteration of the per-file loop of process_folder (lines 286-306).   *)
(***************************************************************************)
\* line 295 on the texts the files of FileKinds hold: the ISBNs of each text
isbns_in == [t \in {k.text : k \in FileKinds} |-> extract_isbns_from_text(t)]

\* what the iteration does with a file: the log records it emits, whether
\* it ends in "continue", and the text handed to extract_isbns_from_text
file_step(file) ==
    LET optimized == optimize_image_for_ocr(file)
        ocr == extract_text_from_image(file)
    IN  IF ~optimized.image
        THEN [skipped |-> TRUE, text |-> <<>>, log |-> optimized.log]
        ELSE IF strip(ocr.text) = <<>>
        THEN [skipped |-> TRUE, text |-> <<>>,
              log |-> ocr.log \o <<Warning("No text extracted")>>]
        ELSE [skipped |-> FALSE, text |-> ocr.text, log |-> ocr.log]

\* the orders in which a for-loop may iterate over list(set(...))
orders(S) ==
    {o \in [1..Cardinality(S) -> S] : \A i, j \in 1..Cardinality(S) : o[i] = o[j] => i = j}

\* all_isbns is kept as the insertion-ordered list of its items
keys(all) == {all[i].isbn : i \in 1..Len(all)}
index_of(all, isbn) == CHOOSE i \in 1..Len(all) : all[i].isbn = isbn

\* mutant: the list of a known ISBN is replaced instead of extended
add_one_overwrite(all, isbn, name) ==
    IF isbn \notin keys(all)
    THEN Append(all, [isbn |-> isbn, files |-> <<name>>])
    ELSE [all EXCEPT ![index_of(all, isbn)].files = <<name>>]

\* lines 304-306
add_one(all, isbn, name) ==
    IF isbn \notin keys(all)
    THEN Append(all, [isbn |-> isbn, files |-> <<name>>])
    ELSE [all EXCEPT ![index_of(all, isbn)].files = Append(@, name)]

\* lines 303-306: the for-loop over isbns
RECURSIVE add_all(_, _, _)
add_all(all, isbns, name) ==
    IF isbns = <<>> THEN all
    ELSE add_all(add_one(all, Head(isbns), name), Tail(isbns), name)

\* mutant: a skipped file ends the loop ("break" for "continue")
break_at(i, n, skipped) == IF skipped THEN n ELSE i + 1

\* mutant: a skipped file is taken up again
retry_at(i, n, skipped) == IF skipped THEN i ELSE i + 1

\* the number of files consumed after iteration i of n ("continue" goes on)
continue_at(i, n, skipped) == i + 1

(***************************************************************************)
(* BookAPIClient.get_book_info / _get_from_google_books.                   *)
(***************************************************************************)
\* the slice bound of description[:500]
DescLimit == 500

\* a text of the provider is kept as the number of its characters (body)
\* followed by a literal tail; Literal(s) is the Python literal s
Literal(s) == [body |-> 0, tail |-> s]

\* dict.get(key, default)
get(d, key, default) == IF key \in DOMAIN d THEN d[key] ELSE default

\* ', '.join(names)
RECURSIVE join(_)
join(names) ==
    IF names = <<>> THEN ""
    ELSE IF Len(names) = 1 THEN names[1]
    ELSE names[1] \o ", " \o join(Tail(names))

\* volumeInfo of the first item of a Google Books answer; description is
\* the length of the provider's description
FullVolume(n) ==
    [title |-> "Learning Python", authors |-> <<"Mark Lutz", "David Ascher">>,
     publisher |-> "O'Reilly", publishedDate |-> "2003-12", description |-> n,
     pageCount |-> "591", language |-> "en"]

SparseVolume == [language |-> "en"]

\* api_delay when none is given (line 268, --api-delay of line 357)
DefaultApiDelay == 1

\* timeout of session.get, in seconds
RequestTimeout == 30

\* what the request of one call can come to: an answer with items, an
\* answer with totalItems = 0, a requests.RequestException (transport
\* error, timeout, HTTP error status), or an answer whose payload makes the
\* parsing raise something else (KeyError, TypeError); time is the number of
\* seconds session.get takes
ApiOutcomes ==
    << [kind |-> "found", volume |-> FullVolume(0), time |-> 0],
       [kind |-> "found", volume |-> FullVolume(DescLimit), time |-> 1],
       [kind |-> "found", volume |-> FullVolume(DescLimit + 1), time |-> 2],
       [kind |-> "found", volume |-> SparseVolume, time |-> 1],
       [kind |-> "zero_items", volume |-> SparseVolume, time |-> 0],
       [kind |-> "request_error", volume |-> SparseVolume, time |-> RequestTimeout],
       [kind |-> "bad_payload", volume |-> SparseVolume, time |-> 1] >>

\* mutant: the call does not wait
sleep_none(secs) == [raised |-> secs < 0, elapsed |-> 0]

\* time.sleep(secs): a negative length raises ValueError
sleep(secs) == [raised |-> secs < 0, elapsed |-> IF secs < 0 THEN 0 ELSE secs]

Min(a, b) == IF a < b THEN a ELSE b

\* line 253: description[:500] + '...' if description else ''
description_of(n) ==
    IF n # 0 THEN [body |-> Min(n, DescLimit), tail |-> "..."] ELSE Literal("")

\* lines 247-256
volume_record(isbn, volume_info) ==
    [isbn |-> isbn,
     title |-> get(volume_info, "title", "Unknown"),
     authors |-> join(get(volume_info, "authors", <<"Unknown">>)),
     publisher |-> get(volume_info, "publisher", "Unknown"),
     published_date |-> get(volume_info, "publishedDate", "Unknown"),
     description |-> description_of(get(volume_info, "description", 0)),
     page_count |-> get(volume_info, "pageCount", "Unknown"),
     language |-> get(volume_info, "language", "Unknown")]

\* some = FALSE stands for the return value None
NoInfo == [some |-> FALSE, info |-> volume_record(<<>>, SparseVolume)]

\* lines 240-262: the request and what is made of its answer
request(isbn, outcome) ==
    IF outcome.kind = "found"
    THEN [res |-> [some |-> TRUE, info |-> volume_record(isbn, outcome.volume)],
          raised |-> FALSE, log |-> <<>>]
    ELSE IF outcome.kind = "zero_items"
    THEN [res |-> NoInfo, raised |-> FALSE, log |-> <<>>]
    ELSE IF outcome.kind = "request_error"
    THEN [res |-> NoInfo, raised |-> FALSE, log |-> <<Error("API request failed")>>]
    ELSE [res |-> NoInfo, raised |-> TRUE, log |-> <<>>]

\* waited: the seconds slept before the request; requested: session.get
\* was called; took: the seconds the request lasted
_get_from_google_books(isbn, outcome, delay) ==
    LET s == sleep(delay)
        r == request(isbn, outcome)
    IN  IF s.raised
        THEN [res |-> NoInfo, raised |-> TRUE, log |-> <<>>,
              waited |-> 0, requested |-> FALSE, took |-> 0]
        ELSE [res |-> r.res, raised |-> r.raised, log |-> r.log,
              waited |-> s.elapsed, requested |-> TRUE, took |-> outcome.time]

get_book_info(isbn, outcome, delay) ==
    LET r == _get_from_google_books(isbn, outcome, delay)
        out == IF r.raised
               THEN [res |-> NoInfo, log |-> <<Error("Error retrieving book info")>>]
               ELSE IF r.res.some THEN [res |-> r.res, log |-> r.log]
               ELSE [res |-> NoInfo,
                     log |-> r.log \o <<Warning("No book information found")>>]
    IN  [res |-> out.res, log |-> out.log, waited |-> r.waited,
         requested |-> r.requested, took |-> r.took]

(***************************************************************************)
(* The enrichment loop of process_folder (lines 315-335).                  *)
(***************************************************************************)
\* mutant: the sentinel record loses the source files
sentinel_no_sources(isbn, source_files) ==
    [isbn |-> isbn, title |-> "Information not found", authors |-> "Unknown",
     publisher |-> "Unknown", published_date |-> "Unknown",
     description |-> Literal(""), page_count |-> "Unknown",
     language |-> "Unknown", source_files |-> ""]

\* lines 325-335
sentinel(isbn, source_files) ==
    [isbn |-> isbn, title |-> "Information not found", authors |-> "Unknown",
     publisher |-> "Unknown", published_date |-> "Unknown",
     description |-> Literal(""), page_count |-> "Unknown",
     language |-> "Unknown", source_files |-> join(source_files)]

\* line 321: book_info['source_files'] = ...
with_sources(info, source_files) ==
    [isbn |-> info.isbn, title |-> info.title, authors |-> info.authors,
     publisher |-> info.publisher, published_date |-> info.published_date,
     description |-> info.description, page_count |-> info.page_count,
     language |-> info.language, source_files |-> join(source_files)]

\* mutant: an ISBN without book information gets no record
enrich_drop(data, item, book_info) ==
    IF book_info.some
    THEN Append(data, with_sources(book_info.info, item.files))
    ELSE data

\* lines 320-335: book_data after the iteration for item of all_isbns
enrich(data, item, book_info) ==
    IF book_info.some
    THEN Append(data, with_sources(book_info.info, item.files))
    ELSE Append(data, sentinel(item.isbn, item.files))

(***************************************************************************)
(* BookISBNExtractor._save_to_csv: the write succeeds (ok) or raises, and  *)
(* the exception is caught and logged.                                     *)
(***************************************************************************)
_save_to_csv(book_rows, ok) ==
    IF ok
    THEN [csv |-> [exists |-> TRUE, rows |-> book_rows], failed |-> FALSE,
          log |-> <<Info("Saved book records")>>]
    ELSE [csv |-> csv, failed |-> TRUE,
          log |-> <<Error("Error saving to CSV")>>]

(***************************************************************************)
(* BookISBNExtractor.process_folder as a sequence of steps.                *)
(* pc: "scan" (lines 275-283), "files" (one iteration of 286-306),         *)
(* "summary" (308-315), "enrich" (one iteration of 316-335), "save"        *)
(* (338-339), "done" (returned).                                           *)
(***************************************************************************)
InitRun ==
    /\ pc = "scan"
    /\ folder_exists \in BOOLEAN
    /\ dir_files \in (IF folder_exists THEN Folders ELSE {<<>>})
    /\ image_files = <<>>
    /\ idx = 0
    /\ all_isbns = <<>>
    /\ book_data = <<>>
    /\ looked_up = <<>>
    /\ api_outcome = <<>>
    /\ csv = [exists |-> FALSE, rows |-> <<>>]
    /\ save_calls = 0
    /\ save_failed = FALSE
    /\ scans = 0
    /\ file_results = <<>>
    /\ api_delay = DefaultApiDelay
    /\ now = 0
    /\ fetches = <<>>
    /\ api_volumes = <<>>
    /\ log = <<>>

\* mutant: the loop over the files is left after its first iteration
after_files_first(i, n) == "summary"

\* line 286: the for-loop goes on while files are left
after_files(i, n) == IF i >= n THEN "summary" ELSE "files"

\* mutant: the early return of lines 310-312 is missing; the empty loop of
\* line 316 falls through to the report
summary_falls_through(all) == IF all = <<>> THEN "save" ELSE "enrich"

\* lines 310-312: return early when no ISBN was found
summary_next(all) == IF all = <<>> THEN "done" ELSE "enrich"

\* lines 275-283
Scan ==
    /\ pc = "scan"
    /\ LET r == find_image_files
       IN  /\ image_files' = r.files
           /\ scans' = scans + 1
           /\ IF r.files = <<>>
              THEN /\ log' = log \o <<Info("Starting processing of folder")>> \o r.log
                                \o <<Warning("No image files found in the specified folder")>>
                   /\ pc' = "done"
              ELSE /\ log' = log \o <<Info("Starting processing of folder")>> \o r.log
                   /\ pc' = "files"
    /\ all_isbns' = <<>>
    /\ UNCHANGED <<folder_exists, dir_files, idx, book_data, looked_up,
                   api_outcome, csv, save_calls, save_failed, file_results>>
    /\ UNCHANGED net_vars
    /\ UNCHANGED isbn_vars

\* lines 286-306, one iteration
ProcessFile ==
    /\ pc = "files"
    /\ idx < Len(image_files)
    /\ LET image_file == image_files[idx + 1]
           step == file_step(entry_at(image_file))
           isbns == IF step.skipped THEN {} ELSE isbns_in[step.text]
       IN  /\ \E order \in orders(isbns) :
                 all_isbns' = add_all(all_isbns, order, basename(image_file))
           /\ file_results' = Append(file_results,
                                     [name |-> basename(image_file),
                                      skipped |-> step.skipped, isbns |-> isbns])
           /\ log' = log \o <<Info("Processing image")>> \o step.log
           /\ idx' = continue_at(idx, Len(image_files), step.skipped)
    /\ pc' = after_files(idx', Len(image_files))
    /\ UNCHANGED <<folder_exists, dir_files, image_files, book_data, looked_up,
                   api_outcome, csv, save_calls, save_failed, scans>>
    /\ UNCHANGED net_vars
    /\ UNCHANGED isbn_vars

\* lines 308-315
Summary ==
    /\ pc = "summary"
    /\ log' = log \o <<Info("Found unique ISBNs")>>
                  \o (IF all_isbns = <<>>
                      THEN <<Warning("No ISBNs found in any images")>> ELSE <<>>)
    /\ pc' = summary_next(all_isbns)
    /\ book_data' = <<>>
    /\ UNCHANGED <<folder_exists, dir_files, image_files, idx, all_isbns,
                   looked_up, api_outcome, csv, save_calls, save_failed, scans,
                   file_results>>
    /\ UNCHANGED net_vars
    /\ UNCHANGED isbn_vars

\* lines 316-335, one iteration
Enrich ==
    /\ pc = "enrich"
    /\ Len(looked_up) < Len(all_isbns)
    /\ \E o \in 1..Len(ApiOutcomes) :
          LET item == all_isbns[Len(looked_up) + 1]
              r == get_book_info(item.isbn, ApiOutcomes[o], api_delay)
          IN  /\ book_data' = enrich(book_data, item, r.res)
              /\ looked_up' = Append(looked_up, item.isbn)
              /\ api_outcome' = Append(api_outcome,
                                       IF r.requested THEN ApiOutcomes[o].kind
                                       ELSE "no_request")
              /\ api_volumes' = Append(api_volumes, ApiOutcomes[o].volume)
              /\ fetches' = IF r.requested
                            THEN Append(fetches,
                                        [isbn |-> item.isbn,
                                         start |-> now + r.waited,
                                         finish |-> now + r.waited + r.took])
                            ELSE fetches
              /\ now' = now + r.waited + r.took
              /\ log' = log \o <<Info("Retrieving book information")>> \o r.log
    /\ pc' = IF Len(looked_up') = Len(all_isbns) THEN "save" ELSE "enrich"
    /\ UNCHANGED <<folder_exists, dir_files, image_files, idx, all_isbns, csv,
                   save_calls, save_failed, scans, file_results, api_delay>>
    /\ UNCHANGED isbn_vars

\* lines 338-339
Save ==
    /\ pc = "save"
    /\ \E ok \in BOOLEAN :
          LET r == _save_to_csv(book_data, ok)
          IN  /\ csv' = r.csv
              /\ save_failed' = r.failed
              /\ log' = log \o r.log \o <<Info("Processing complete. Results saved")>>
    /\ save_calls' = save_calls + 1
    /\ pc' = "done"
    /\ UNCHANGED <<folder_exists, dir_files, image_files, idx, all_isbns,
                   book_data, looked_up, api_outcome, scans, file_results>>
    /\ UNCHANGED net_vars
    /\ UNCHANGED isbn_vars

Init == InitRun /\ IsbnIdle

Next == Scan \/ ProcessFile \/ Summary \/ Enrich \/ Save

Spec == Init /\ [][Next]_vars

\* the files termination is examined for: each way a file can fail, and
\* files that show one and two ISBNs
FairKinds ==
    {k \in FileKinds : \/ k.img # "ok"
                       \/ k.ocr = "fail"
                       \/ k.suffix \in SupportedFormats /\ isbns_in[k.text] # {}}

FairFolders == UNION {[1..n -> FairKinds] : n \in 0..MaxFairFiles}

InitFair ==
    /\ pc = "scan"
    /\ folder_exists \in BOOLEAN
    /\ dir_files \in (IF folder_exists THEN FairFolders ELSE {<<>>})
    /\ image_files = <<>>
    /\ idx = 0
    /\ all_isbns = <<>>
    /\ book_data = <<>>
    /\ looked_up = <<>>
    /\ api_outcome = <<>>
    /\ csv = [exists |-> FALSE, rows |-> <<>>]
    /\ save_calls = 0
    /\ save_failed = FALSE
    /\ scans = 0
    /\ file_results = <<>>
    /\ api_delay = DefaultApiDelay
    /\ now = 0
    /\ fetches = <<>>
    /\ api_volumes = <<>>
    /\ log = <<>>
    /\ IsbnIdle

\* the run under a scheduler that lets the interpreter take its next step:
\* process_folder is one thread of control, and nothing but its own
\* returning stops it
SpecFair == InitFair /\ [][Next]_vars /\ WF_vars(Next)

\* the values of --api-delay the rate is examined for
ApiDelays == {0 - DefaultApiDelay, 0, DefaultApiDelay, DefaultApiDelay + 1}

\* folders of files that show ISBNs
IsbnFolders ==
    UNION {[1..n -> {k \in FileKinds : k.img = "ok" /\ k.ocr = "ok" /\ Len(k.text) > 2}]
              : n \in 0..MaxFiles}

\* a run with any api_delay on a folder of readable files
InitRate ==
    /\ pc = "scan"
    /\ folder_exists = TRUE
    /\ dir_files \in IsbnFolders
    /\ image_files = <<>>
    /\ idx = 0
    /\ all_isbns = <<>>
    /\ book_data = <<>>
    /\ looked_up = <<>>
    /\ api_outcome = <<>>
    /\ csv = [exists |-> FALSE, rows |-> <<>>]
    /\ save_calls = 0
    /\ save_failed = FALSE
    /\ scans = 0
    /\ file_results = <<>>
    /\ api_delay \in ApiDelays
    /\ now = 0
    /\ fetches = <<>>
    /\ api_volumes = <<>>
    /\ log = <<>>
    /\ IsbnIdle

SpecRate == InitRate /\ [][Next]_vars

(***************************************************************************)
(* Properties of process_folder (specification Spec).                      *)
(***************************************************************************)
\* the source list of isbn in an all_isbns
files_of(all, isbn) == all[index_of(all, isbn)].files

\* the names of the files whose iteration extracted isbn, in loop order
RECURSIVE names_with(_, _)
names_with(results, isbn) ==
    IF results = <<>> THEN <<>>
    ELSE (IF ~Head(results).skipped /\ isbn \in Head(results).isbns
          THEN <<Head(results).name>> ELSE <<>>)
         \o names_with(Tail(results), isbn)

\* the ISBNs extracted from the files that were not skipped
extracted_isbns ==
    UNION {file_results[k].isbns : k \in {j \in 1..Len(file_results) : ~file_results[j].skipped}}

\* the run has handed book_data to the report writer, or is about to
Handed == pc \in {"save", "done"} /\ looked_up # <<>>

\* the lookup of call i failed or gave no result
Failed(i) == api_outcome[i] \in {"zero_items", "request_error", "bad_payload"}

\* C1: when the run reaches the report writer, book_data holds exactly one
\* record per key of all_isbns, whatever the lookups came to: no ISBN is
\* missing, none occurs twice, and each record carries the source files
\* aggregated for its ISBN.
C1_OneRecordPerIsbn ==
    Handed =>
        /\ Len(book_data) = Len(all_isbns)
        /\ {book_data[i].isbn : i \in 1..Len(book_data)} = keys(all_isbns)
        /\ \A k \in keys(all_isbns) :
              Cardinality({i \in 1..Len(book_data) : book_data[i].isbn = k}) = 1
        /\ \A i \in 1..Len(book_data) :
              /\ book_data[i].isbn \in keys(all_isbns)
              /\ book_data[i].source_files
                    = join(names_with(file_results, book_data[i].isbn))
        /\ (csv.exists => csv.rows = book_data)

\* C1 witness: a finished run with two ISBNs, one of them from two files,
\* in which every lookup failed
C1_Witness ==
    /\ pc = "done"
    /\ save_calls = 1
    /\ Len(all_isbns) = 2
    /\ \A i \in 1..Len(api_outcome) : Failed(i)
    /\ \E i \in 1..Len(all_isbns) : Len(all_isbns[i].files) = 2

\* C2: all_isbns has exactly one entry per ISBN extracted from a file that
\* was not skipped; the entry lists the names of the files the ISBN was
\* extracted from, each once, in processing order; no list is empty.
C2_Aggregation ==
    /\ \A i, j \in 1..Len(all_isbns) :
          all_isbns[i].isbn = all_isbns[j].isbn => i = j
    /\ keys(all_isbns) = extracted_isbns
    /\ \A i \in 1..Len(all_isbns) :
          LET fs == all_isbns[i].files
          IN  /\ fs = names_with(file_results, all_isbns[i].isbn)
              /\ fs # <<>>
              /\ \A a, b \in 1..Len(fs) : fs[a] = fs[b] => a = b

\* C2 witness: an ISBN found in the first and the third file, not the second
C2_Witness ==
    /\ pc = "summary"
    /\ Len(file_results) = 3
    /\ \E i \in 1..Len(all_isbns) :
          /\ all_isbns[i].files = <<file_results[1].name, file_results[3].name>>
          /\ all_isbns[i].isbn \notin file_results[2].isbns
          /\ file_results[2].isbns # {}

\* all_isbns as a mapping
as_map(all) == [k \in keys(all) |-> files_of(all, k)]

\* the per-file loop run over the given iterations only
RECURSIVE aggregate(_, _)
aggregate(all, results) ==
    IF results = <<>> THEN all
    ELSE aggregate(add_all(all, CHOOSE o \in orders(Head(results).isbns) : TRUE,
                           Head(results).name),
                   Tail(results))

\* C3: a file that fails (unreadable image, preprocessing error, recognition
\* failure, blank text) adds nothing to all_isbns; every other discovered
\* file is still processed; all_isbns is what the loop yields on the folder
\* without the failing files.
C3_SkipOnlyThatFile ==
    /\ \A k \in 1..Len(file_results) :
          file_results[k].skipped =>
              \A i \in 1..Len(all_isbns) :
                  \A a \in 1..Len(all_isbns[i].files) :
                      all_isbns[i].files[a] # file_results[k].name
    /\ pc \in {"summary", "enrich", "save"} \/ (pc = "done" /\ image_files # <<>>) =>
          /\ Len(file_results) = Len(image_files)
          /\ \A k \in 1..Len(image_files) :
                file_results[k].name = basename(image_files[k])
    /\ as_map(all_isbns)
          = as_map(aggregate(<<>>, SelectSeq(file_results, LAMBDA r : ~r.skipped)))

\* C3 witness: the second of three files is skipped, the first and the third
\* contribute ISBNs
C3_Witness ==
    /\ pc = "summary"
    /\ Len(file_results) = 3
    /\ file_results[2].skipped
    /\ file_results[1].isbns # {}
    /\ file_results[3].isbns # {}

\* the phases of a run, in order
Rank(p) ==
    CASE p = "scan" -> 1 [] p = "files" -> 2 [] p = "summary" -> 3
      [] p = "enrich" -> 4 [] p = "save" -> 5 [] p = "done" -> 6

\* C4: a run moves through scan, files, summary, enrich, save, done in this
\* order and never back; the folder is scanned once; no lookup starts
\* before every discovered file was processed and aggregated; the report
\* writer is called at most once, after the lookup of every ISBN, and once
\* in every finished run that looked anything up.
C4_PhaseOrder ==
    /\ [][Rank(pc') > Rank(pc) \/ (pc' = pc /\ pc \in {"files", "enrich"})]_vars
    /\ [](/\ scans <= 1
          /\ pc # "scan" => scans = 1
          /\ looked_up # <<>> =>
                /\ idx = Len(image_files)
                /\ Len(file_results) = Len(image_files)
          /\ save_calls <= 1
          /\ save_calls = 1 =>
                /\ pc = "done"
                /\ Len(looked_up) = Len(all_isbns)
                /\ looked_up = [i \in 1..Len(all_isbns) |-> all_isbns[i].isbn]
          /\ pc = "done" /\ looked_up # <<>> => save_calls = 1)

\* C4 witness: a finished run over three files with two lookups and a report
C4_Witness ==
    /\ pc = "done"
    /\ Len(image_files) = 3
    /\ Len(looked_up) = 2
    /\ save_calls = 1

\* the run returned before the enrichment
EarlyExit == pc = "done" /\ (image_files = <<>> \/ all_isbns = <<>>)

\* what an early exit leaves apart from the report: a warning as the last
\* log record, no lookup, no record
EarlyExitQuiet ==
    /\ looked_up = <<>>
    /\ book_data = <<>>
    /\ log # <<>>
    /\ log[Len(log)].level = "WARNING"
    /\ ~folder_exists => image_files = <<>>

\* C5 as stated: a run with no image (a missing folder included) or no
\* validated ISBN ends early with an empty report (zero rows), a warning,
\* and no lookup.
C5_EarlyExitEmptyReport ==
    EarlyExit => (EarlyExitQuiet /\ csv.exists /\ csv.rows = <<>>)

\* C5 amended: a run with no image (a missing folder included) or no
\* validated ISBN ends early with a warning and no lookup, and writes no
\* report at all: the report writer is not called and no output file is made.
C5_EarlyExitNoReport ==
    /\ EarlyExit => (EarlyExitQuiet /\ save_calls = 0 /\ ~csv.exists)
    /\ (pc # "scan" /\ image_files = <<>>) => pc = "done"
    /\ (pc \notin {"scan", "files", "summary"} /\ all_isbns = <<>>) => pc = "done"

\* C5 witness: three image files, none yields an ISBN, the run is over
C5_Witness ==
    /\ EarlyExit
    /\ Len(image_files) = 3
    /\ \E k \in 1..Len(file_results) : ~file_results[k].skipped

\* C6: after a failed write of the report no message says that the results
\* were saved.
C6_NoConfirmationAfterFailedWrite ==
    save_failed =>
        \A i \in 1..Len(log) : log[i] # Info("Processing complete. Results saved")

MarkerTexts == {"Unknown", "Information not found"}

\* the record of lookup i keeps the ISBN and its source files
Preserved(i) ==
    /\ book_data[i].isbn = looked_up[i]
    /\ book_data[i].isbn = all_isbns[i].isbn
    /\ book_data[i].source_files = join(names_with(file_results, looked_up[i]))

\* the fields of a sentinel record other than the description
MarkedFields(r) ==
    /\ r.title = "Information not found"
    /\ r.authors = "Unknown"
    /\ r.publisher = "Unknown"
    /\ r.published_date = "Unknown"
    /\ r.page_count = "Unknown"
    /\ r.language = "Unknown"

\* C7 as stated: a failed or empty lookup does not end the run and leaves a
\* record whose descriptive fields, the description included, all hold a
\* marker, with the ISBN and the source files kept.
C7_SentinelAllMarkers ==
    /\ Len(book_data) = Len(looked_up)
    /\ \A i \in 1..Len(book_data) :
          Failed(i) =>
              /\ Preserved(i)
              /\ MarkedFields(book_data[i])
              /\ book_data[i].description.body = 0
              /\ book_data[i].description.tail \in MarkerTexts

\* C7 amended: a failed or empty lookup does not end the run and leaves a
\* record whose title is "Information not found", whose authors, publisher,
\* published date, page count and language are "Unknown" and whose
\* description is the empty string, with the ISBN and the source files kept.
C7_SentinelRecord ==
    /\ Len(book_data) = Len(looked_up)
    /\ Len(api_outcome) = Len(looked_up)
    /\ \A i \in 1..Len(book_data) :
          Failed(i) =>
              /\ Preserved(i)
              /\ MarkedFields(book_data[i])
              /\ book_data[i].description = Literal("")

\* C7 witness: a transport error for an ISBN of two files, then a lookup
\* that succeeds
C7_Witness ==
    /\ Len(api_outcome) = 2
    /\ api_outcome[1] = "request_error"
    /\ api_outcome[2] = "found"
    /\ Len(all_isbns[1].files) = 2

(***************************************************************************)
(* Properties of the validators (SpecValidate) and of the extraction       *)
(* (SpecExtract).                                                          *)
(***************************************************************************)
\* the value of a decimal digit, 0 for any other character
DigitValue(c) == IF c \in Digits THEN int(c) ELSE 0

\* the ISBN-10 rule for a 10-character string s whose check character may
\* be a digit or one of tens (standing for 10)
Rule10(s, tens) ==
    /\ \A i \in 1..9 : s[i] \in Digits
    /\ s[10] \in Digits \cup tens
    /\ (  DigitValue(s[1]) * 10 + DigitValue(s[2]) * 9 + DigitValue(s[3]) * 8
        + DigitValue(s[4]) * 7 + DigitValue(s[5]) * 6 + DigitValue(s[6]) * 5
        + DigitValue(s[7]) * 4 + DigitValue(s[8]) * 3 + DigitValue(s[9]) * 2
        + (IF s[10] \in tens THEN 10 ELSE DigitValue(s[10]))) % 11 = 0

\* the ISBN-13 rule for a 13-character string s
Rule13(s) ==
    /\ \A i \in 1..13 : s[i] \in Digits
    /\ (10 - ((  DigitValue(s[1]) + 3 * DigitValue(s[2]) + DigitValue(s[3])
               + 3 * DigitValue(s[4]) + DigitValue(s[5]) + 3 * DigitValue(s[6])
               + DigitValue(s[7]) + 3 * DigitValue(s[8]) + DigitValue(s[9])
               + 3 * DigitValue(s[10]) + DigitValue(s[11])
               + 3 * DigitValue(s[12])) % 10)) % 10 = DigitValue(s[13])

\* C8 as stated: a 10-character string is valid iff its first nine
\* characters are digits, the last is a digit or 'X', and the weighted sum
\* is divisible by 11.
C8_Isbn10UpperXOnly ==
    (vpc = "validated" /\ Len(text) = 10) => (valid <=> Rule10(text, {"X"}))

\* C8 amended: a 10-character ASCII string is valid iff its first nine
\* characters are digits, the last is a digit, 'X' or 'x', and the weighted
\* sum (10 for 'X' and for 'x') is divisible by 11; "0596007973" and
\* "0201616165" are valid, "0123456788" is not.
C8_Isbn10Rule ==
    /\ (vpc = "validated" /\ Len(text) = 10) => (valid <=> Rule10(text, {"X", "x"}))
    /\ vpc = "validated" =>
          /\ validate_isbn(<<"0", "5", "9", "6", "0", "0", "7", "9", "7", "3">>)
          /\ validate_isbn(<<"0", "2", "0", "1", "6", "1", "6", "1", "6", "5">>)
          /\ ~validate_isbn(<<"0", "1", "2", "3", "4", "5", "6", "7", "8", "8">>)

\* C8 witness: a string ending in a lower-case x was found valid
C8_Witness ==
    /\ vpc = "validated"
    /\ Len(text) = 10
    /\ text[10] = "x"
    /\ valid

\* C9: a 13-character string is valid iff all its characters are digits and
\* (10 - (sum of the first 12 digits weighted 1,3,1,3,...) mod 10) mod 10 is
\* its 13th digit; "9780596520687" is valid, "9780123456788" is not.
C9_Isbn13Rule ==
    /\ (vpc = "validated" /\ Len(text) = 13) => (valid <=> Rule13(text))
    /\ vpc = "validated" =>
          /\ validate_isbn(<<"9", "7", "8", "0", "5", "9", "6", "5", "2", "0", "6", "8", "7">>)
          /\ ~validate_isbn(<<"9", "7", "8", "0", "1", "2", "3", "4", "5", "6", "7", "8", "8">>)

\* C9 witness: a 13-digit string that differs from the base string in two
\* places was found valid
C9_Witness ==
    /\ vpc = "validated"
    /\ Len(text) = 13
    /\ edits = 2
    /\ text \notin ValidateInputs
    /\ valid

\* C10: every value extract_isbns_from_text returns is free of hyphens and
\* white space, is 10 or 13 characters long and has a correct checksum (it
\* passes _validate_isbn); candidates of another length are never returned.
C10_ExtractedAreValid ==
    vpc = "extracted" =>
        \A isbn \in found :
            /\ \A i \in 1..Len(isbn) : isbn[i] \notin Separators
            /\ Len(isbn) \in {10, 13}
            /\ validate_isbn(isbn)
            /\ Len(isbn) = 10 => Rule10(isbn, {"X", "x"})
            /\ Len(isbn) = 13 => Rule13(isbn)

\* C10 witness: an edited text with a candidate that is rejected and a
\* candidate that is returned
C10_Witness ==
    /\ vpc = "extracted"
    /\ edits = 1
    /\ found # {}
    /\ \E c \in 1..2 :
          \E i \in 1..Len(finditer(isbn_patterns[c], text, 1)) :
              clean(finditer(isbn_patterns[c], text, 1)[i]) \notin found

(***************************************************************************)
(* Properties of the metadata lookups (SpecRate, Spec) and termination     *)
(* (SpecFair).                                                             *)
(***************************************************************************)
\* C11: the fetches of a run do not overlap (one in flight at a time), and
\* the starts of two consecutive fetches are at least api_delay apart,
\* whatever the earlier fetch came to.
C11_RateLimited ==
    /\ \A i \in 1..Len(fetches) : fetches[i].start <= fetches[i].finish
    /\ \A i \in 1..(Len(fetches) - 1) :
          /\ fetches[i].finish <= fetches[i + 1].start
          /\ fetches[i + 1].start - fetches[i].start >= api_delay
    /\ fetches # <<>> => fetches[Len(fetches)].finish <= now
    /\ api_delay >= 0 =>
          /\ Len(fetches) = Len(looked_up)
          /\ \A i \in 1..Len(fetches) : fetches[i].isbn = looked_up[i]

\* C11 witness: with a delay of two seconds, a fetch that returned no item
\* at once is followed by a second fetch exactly the delay later
C11_Witness ==
    /\ api_delay = DefaultApiDelay + 1
    /\ Len(fetches) = 2
    /\ api_outcome[1] = "zero_items"
    /\ fetches[1].finish = fetches[1].start
    /\ fetches[2].start - fetches[1].start = api_delay

\* C12: the stored description is the provider's description cut at 500
\* characters, followed by the marker if and only if it was cut; one of at
\* most 500 characters is stored unchanged.
C12_MarkerIffTruncated ==
    \A i \in 1..Len(book_data) :
        api_outcome[i] = "found" =>
            LET n == get(api_volumes[i], "description", 0)
            IN  book_data[i].description
                    = IF n > DescLimit THEN [body |-> DescLimit, tail |-> "..."]
                      ELSE [body |-> n, tail |-> ""]

\* no element of a sequence occurs twice
NoRepeat(seq) == \A i, j \in 1..Len(seq) : seq[i] = seq[j] => i = j

\* C13: every run reaches "done"; each discovered file is processed at most
\* once, each ISBN is looked up once and not again, and no failure of a
\* file or of a lookup ends the run before the other files and ISBNs were
\* handled.
C13_Terminates ==
    /\ <>(pc = "done")
    /\ [](/\ Len(file_results) <= Len(image_files)
          /\ NoRepeat([k \in 1..Len(file_results) |-> file_results[k].name])
          /\ \A k \in 1..Len(file_results) :
                file_results[k].name = basename(image_files[k])
          /\ NoRepeat(looked_up)
          /\ Len(looked_up) <= Len(all_isbns)
          /\ Len(api_outcome) = Len(looked_up)
          /\ Len(fetches) <= Len(looked_up)
          /\ pc = "done" =>
                /\ Len(file_results) = Len(image_files)
                /\ looked_up = [i \in 1..Len(all_isbns) |-> all_isbns[i].isbn]
                /\ Len(book_data) = Len(all_isbns))

\* C13 witness: a finished run in which the first of two files was skipped
\* and the first of two lookups failed
C13_Witness ==
    /\ pc = "done"
    /\ Len(file_results) = 2
    /\ file_results[1].skipped
    /\ Len(looked_up) = 2
    /\ api_outcome[1] = "request_error"

=============================================================================
